---- MODULE Spec2Model ----
(***************************************************************************)
(* Model of src/hackmerlinsolver.py: the probe / extract / submit control  *)
(* loop of run_template_regex_loop, the selector cascade of submit_answer, *)
(* and the pure helpers validate_candidate, find_latest_bot_text and       *)
(* extract_secret_from_text.                                               *)
(*                                                                         *)
(* Python strings are sequences of one-character strings.  An optional     *)
(* value is None == <<>> or Some(x) == <<x>>.  Collaborators (browser      *)
(* automation, text generation, file system) are nondeterministic: every   *)
(* call either returns one of a small set of values or throws.             *)
(***************************************************************************)
EXTENDS Integers, Sequences, FiniteSets, TLC

\* ------------------------------------------------------------------ bounds
\* max_levels argument of run_template_regex_loop
MaxLevels == 2
\* max_templates_per_level argument of run_template_regex_loop
MaxTemplatesPerLevel == 4
\* largest number of <button> elements the page shows to the last-resort scan
MaxButtons == 2
\* largest number of message elements the page shows during a run
MaxMessages == 2
\* validator inputs: longest whitespace padding on either side
MaxPad == 2
\* validator inputs: longest exhaustively enumerated core string
MaxShort == 2
\* extractor inputs: longest enumerated reply text
MaxTextLen == 3

\* ------------------------------------------------------- program constants
NumInputSelectors == 5
NumSubmitSelectors == 4
NumTemplates == 3
MaxTokenLen == 50

\* ----------------------------------------------------------------- strings
UpperSeq ==
  <<"A","B","C","D","E","F","G","H","I","J","K","L","M",
    "N","O","P","Q","R","S","T","U","V","W","X","Y","Z">>
LowerSeq ==
  <<"a","b","c","d","e","f","g","h","i","j","k","l","m",
    "n","o","p","q","r","s","t","u","v","w","x","y","z">>
Digits == {"0","1","2","3","4","5","6","7","8","9"}
Whitespace == {" ", "\t", "\n"}

Range(s) == {s[k] : k \in 1..Len(s)}

None == <<>>
Some(x) == <<x>>

\* str.strip(): drop leading and trailing whitespace
RECURSIVE LStrip(_)
LStrip(s) ==
  IF s # <<>> /\ Head(s) \in Whitespace THEN LStrip(Tail(s)) ELSE s

RECURSIVE RStrip(_)
RStrip(s) ==
  IF s # <<>> /\ s[Len(s)] \in Whitespace
  THEN RStrip(SubSeq(s, 1, Len(s) - 1))
  ELSE s

Strip(s) == RStrip(LStrip(s))

\* str.upper() / str.lower(), character by character
UpperChar(c) ==
  IF \E k \in 1..26 : LowerSeq[k] = c
  THEN UpperSeq[CHOOSE k \in 1..26 : LowerSeq[k] = c]
  ELSE c

LowerChar(c) ==
  IF \E k \in 1..26 : UpperSeq[k] = c
  THEN LowerSeq[CHOOSE k \in 1..26 : UpperSeq[k] = c]
  ELSE c

Upper(s) == [k \in 1..Len(s) |-> UpperChar(s[k])]
Lower(s) == [k \in 1..Len(s) |-> LowerChar(s[k])]

\* `k in text`: substring test
Contains(text, k) ==
  \E a \in 1..(Len(text) + 1) :
     /\ a + Len(k) - 1 <= Len(text)
     /\ SubSeq(text, a, a + Len(k) - 1) = k

\* the character class [A-Za-z0-9_\-'] of validate_candidate
AllowedChars == Range(UpperSeq) \cup Range(LowerSeq) \cup Digits \cup {"_", "-", "'"}

\* re.fullmatch(r"[A-Za-z0-9_\-']{1,50}", token)
FullMatch(token) ==
  /\ Len(token) >= 1
  /\ Len(token) <= MaxTokenLen
  /\ \A k \in 1..Len(token) : token[k] \in AllowedChars

\* mutant: the token is tested as given, without token.strip()
validate_candidate_nostrip(token) ==
  IF token = <<>> THEN FALSE
  ELSE IF Len(token) < 1 \/ Len(token) > MaxTokenLen THEN FALSE
  ELSE FullMatch(token)

validate_candidate(token) ==
  IF token = <<>> THEN FALSE
  ELSE LET stripped == Strip(token) IN
       IF Len(stripped) < 1 \/ Len(stripped) > MaxTokenLen THEN FALSE
       ELSE FullMatch(stripped)


\* -------------------------------------------------- collaborators' outputs
\* raw inner texts of elements matching BOT_MESSAGE_SELECTOR
RawTexts == { <<" ">>, <<" ", "M", "4", "\n">> }

\* generated_text values the text-generation pipeline may return in a run:
\* the sentinel, an empty output and a phrase (validate_candidate and
\* extract_secret_from_text have wider inputs in their own specifications)
NlpOutputs ==
  { <<" ","n","o","n","e"," ">>,
    <<>>,
    <<"a"," ","b">> }

\* inner_text() values of the page's <button> elements (None or a label)
ScanLabels == { None, Some(<<"O","K">>), Some(<<"S","e","n","d">>) }

\* the keyword tuple of the last-resort scan
Keywords ==
  { <<"s","u","b","m","i","t">>, <<"c","h","e","c","k">>, <<"n","e","x","t">>,
    <<"a","n","s","w","e","r">>, <<"s","e","n","d">> }

\* --------------------------------------------------------------- variables
VARIABLES
  pc,            \* position in run_template_regex_loop / submit_answer
  level, i, tpl, found, transcript, transcripts,
  bot_text, candidate, submitted,
  messages,      \* page: inner texts of the elements matching
                 \* BOT_MESSAGE_SELECTOR, oldest first
  replied,       \* history: the page rendered a non-blank message after this
                 \* probe's prompt was sent
  files,         \* durable storage: names of the transcript files written
  written,       \* durable storage: lines of the file written for this level
  summaries,     \* durable storage: summary files written, in order
  launched,      \* p.chromium.launch returned
  acquired,      \* context and page were created
  ctxCloseCalls, browserCloseCalls,
  escaped,       \* exception pending or propagated out of the function
  outcomes,      \* per finished level: "FOUND" or "EXHAUSTED"
  prompts,       \* history: templates of the prompts entered in this level
  promptLevels,  \* history: levels for which a prompt was entered
  submitCount,   \* history: calls of submit_answer made in this level
  enterFailedAt, \* history: level whose prompt entry failed (0: none yet)
  next_btn,      \* history: what the latest look for a Next/Continue button
                 \* came to ("none" before the first one)
  answer, sel, el, btn_sel, buttons, b,   \* locals of submit_answer
  actionsDone,   \* submission actions completed in this submit_answer call
  lateOps,       \* page operations made after a completed submission action
  filled,        \* input elements found, on which fill()/type() was invoked
  pressFailed,   \* input elements whose Enter press threw
  vtoken, vresult, \* argument and result of a validate_candidate call
  etext,         \* argument of an extract_secret_from_text call on its own
  egen,          \* generated_text the pipeline returns in that call
  ecalled,       \* the pipeline was invoked in that call
  eresult        \* value that call returned

runVars == <<level, i, tpl, found, transcript, transcripts, bot_text, candidate,
             submitted>>
envVars == <<messages, files, summaries, launched, acquired,
             ctxCloseCalls, browserCloseCalls>>
histVars == <<outcomes, prompts, promptLevels, submitCount, enterFailedAt, replied,
             written, next_btn>>
saVars == <<answer, sel, el, btn_sel, buttons, b, actionsDone, lateOps,
            filled, pressFailed>>
valVars == <<vtoken, vresult, etext, egen, ecalled, eresult>>
vars == <<pc, escaped, runVars, envVars, histVars, saVars, valVars>>

\* ------------------------------------------------------ exception handling
\* an except clause absorbs the throw of `op`: nothing is pending and
\* execution goes on at `next`
Caught(op, next) ==
  /\ escaped' = escaped
  /\ pc' = next

\* no handler inside the try block: the finally clause runs, then it propagates
Raised(op) ==
  /\ escaped' = op
  /\ pc' = "finally"

\* a throw outside the try block: no finally clause runs
RaisedOutside(op) ==
  /\ escaped' = op
  /\ pc' = "done"

\* a throw inside the finally clause replaces the pending exception and
\* skips the rest of the clause
RaisedInFinally(op) ==
  /\ escaped' = op
  /\ pc' = "done"

\* a step in which nothing throws
Goes(next) ==
  /\ escaped' = escaped
  /\ pc' = next

\* ------------------------------------------------------------ pure helpers
\* mutant: the text of the last element is returned as it is
find_latest_bot_text_last(elems) ==
  IF elems = <<>> THEN <<>> ELSE elems[Len(elems)]

\* find_latest_bot_text, given the inner texts of the matching elements
find_latest_bot_text(elems) ==
  IF elems = <<>> THEN <<>>
  ELSE LET texts == SelectSeq([k \in 1..Len(elems) |-> Strip(elems[k])],
                              LAMBDA t : t # <<>>)
       IN IF texts # <<>> THEN texts[Len(texts)] ELSE <<>>

\* extract_secret_from_text calls nlp only past the blank-text early return
NlpCalled(text) == ~(text = <<>> \/ Strip(text) = <<>>)

\* mutant: the sentinel is compared as it is, without upper()
extract_secret_from_text_exact(text, generated) ==
  IF ~NlpCalled(text) THEN None
  ELSE LET output == Strip(generated) IN
       IF output = <<"N","O","N","E">> THEN None ELSE Some(output)

\* extract_secret_from_text, given the generated_text the pipeline returns
extract_secret_from_text(text, generated) ==
  IF ~NlpCalled(text) THEN None
  ELSE LET output == Strip(generated) IN
       IF Upper(output) = <<"N","O","N","E">> THEN None ELSE Some(output)

\* truth value of an optional string: neither None nor the empty string
Truthy(c) == c # None /\ c[1] # <<>>

\* the transcript file written by save_transcript (timestamp left out)
FName(level_idx) == <<"level", level_idx>>

AgentLine(t) == [who |-> "Agent", tpl |-> t, text |-> <<>>]
BotLine(text) == [who |-> "Bot", tpl |-> 0, text |-> text]

\* locals of submit_answer before the call and after its return
NoCall ==
  /\ answer' = <<>> /\ sel' = 0 /\ el' = FALSE /\ btn_sel' = 0
  /\ buttons' = 0 /\ b' = 0
  /\ actionsDone' = <<>> /\ lateOps' = 0
  /\ filled' = 0 /\ pressFailed' = 0

InitRun ==
  /\ level = 0 /\ i = 0 /\ tpl = 0 /\ found = FALSE
  /\ transcript = <<>> /\ transcripts = <<>>
  /\ bot_text = <<>> /\ candidate = None /\ submitted = FALSE
  /\ messages = <<>> /\ files = <<>> /\ summaries = <<>>
  /\ launched = FALSE /\ acquired = FALSE
  /\ ctxCloseCalls = 0 /\ browserCloseCalls = 0
  /\ escaped = "none"
  /\ outcomes = <<>> /\ prompts = <<>> /\ submitCount = 0 /\ enterFailedAt = 0
  /\ replied = FALSE /\ promptLevels = {} /\ written = <<>>
  /\ next_btn = "none"
  /\ answer = <<>> /\ sel = 0 /\ el = FALSE /\ btn_sel = 0
  /\ buttons = 0 /\ b = 0
  /\ actionsDone = <<>> /\ lateOps = 0
  /\ filled = 0 /\ pressFailed = 0

\* no extract_secret_from_text call on its own
NoExtractCall ==
  etext = <<>> /\ egen = <<>> /\ ecalled = FALSE /\ eresult = None

Init ==
  /\ pc = "launch"
  /\ vtoken = <<>> /\ vresult = FALSE
  /\ NoExtractCall
  /\ InitRun

\* ------------------------------------------- run_template_regex_loop: setup
\* line 130: browser = p.chromium.launch(headless=headless)
Launch ==
  /\ pc = "launch"
  /\ \/ launched' = TRUE /\ Goes("new_context")
     \/ launched' = launched /\ RaisedOutside("launch")
  /\ UNCHANGED <<runVars, messages, files, summaries, acquired,
                 ctxCloseCalls, browserCloseCalls, histVars, saVars, valVars>>

\* lines 131-132: context = browser.new_context(); page = context.new_page()
NewContext ==
  /\ pc = "new_context"
  /\ \/ acquired' = TRUE /\ Goes("goto")
     \/ acquired' = acquired /\ RaisedOutside("new_context")
  /\ UNCHANGED <<runVars, messages, files, summaries, launched,
                 ctxCloseCalls, browserCloseCalls, histVars, saVars, valVars>>

\* lines 133-137: page.goto(start_url); level = 1; transcripts = []
\* the loaded page may already show a message
Goto ==
  /\ pc = "goto"
  /\ \/ /\ \E greeting \in {<<>>} \cup {<<raw>> : raw \in RawTexts} :
              messages' = greeting
        /\ level' = 1
        /\ transcripts' = <<>>
        /\ Goes("level_head")
     \/ /\ RaisedOutside("goto")
        /\ UNCHANGED <<messages, level, transcripts>>
  /\ UNCHANGED <<i, tpl, found, transcript, bot_text, candidate, submitted,
                 files, summaries, launched, acquired,
                 ctxCloseCalls, browserCloseCalls, histVars, saVars, valVars>>

\* ------------------------------------------------------------ level loop
\* lines 140-143: while level <= max_levels: transcript = []; found = False
LevelHead ==
  /\ pc = "level_head"
  /\ IF level <= MaxLevels
     THEN /\ transcript' = <<>>
          /\ found' = FALSE
          /\ i' = 0
          /\ submitCount' = 0 /\ prompts' = <<>> /\ written' = <<>>
          /\ next_btn' = "none"
          /\ Goes("probe_head")
     ELSE /\ Goes("finally")
          /\ UNCHANGED <<transcript, found, i, submitCount, prompts, written,
                         next_btn>>
  /\ UNCHANGED <<level, tpl, transcripts, bot_text, candidate, submitted,
                 envVars, outcomes, promptLevels, enterFailedAt, replied,
                 saVars, valVars>>

\* mutant: the index is clamped to the end of the list instead of wrapping
TemplateIndex_nowrap(k) == IF k < NumTemplates THEN k + 1 ELSE NumTemplates

\* line 147: TEMPLATES[i % len(TEMPLATES)], as a position 1..len(TEMPLATES)
TemplateIndex(k) == (k % NumTemplates) + 1

\* lines 146-147: for i in range(max_templates_per_level): tpl = TEMPLATES[i % len]
ProbeHead ==
  /\ pc = "probe_head"
  /\ IF i < MaxTemplatesPerLevel
     THEN /\ tpl' = TemplateIndex(i)
          /\ Goes("enter")
     ELSE /\ tpl' = tpl
          /\ Goes("save")
  /\ UNCHANGED <<level, i, found, transcript, transcripts, bot_text, candidate,
                 submitted, envVars, histVars, saVars, valVars>>

\* mutant: the probe is given up and the for loop takes the next template
EnterFailed_continue ==
  /\ Caught("enter", "probe_head")
  /\ i' = i + 1

\* mutant: the same probe is tried again until the prompt can be entered
EnterFailed_retry ==
  /\ Caught("enter", "probe_head")
  /\ i' = i

\* lines 156-158: fill and focus-and-type both threw: print(...); break
EnterFailed ==
  /\ Caught("enter", "save")
  /\ i' = i

\* lines 150-158: enter the template into the chat input
EnterPrompt ==
  /\ pc = "enter"
  /\ \/ /\ \/ Goes("send")
           \/ Caught("fill", "send")
        /\ prompts' = Append(prompts, tpl)
        /\ promptLevels' = promptLevels \cup {level}
        /\ i' = i
        /\ enterFailedAt' = enterFailedAt
     \/ /\ EnterFailed
        /\ UNCHANGED <<prompts, promptLevels>>
        /\ enterFailedAt' = level
  /\ UNCHANGED <<level, tpl, found, transcript, transcripts, bot_text, candidate,
                 submitted, envVars, outcomes, submitCount, replied, written,
                 next_btn, saVars, valVars>>

\* lines 160-166: click the send button, else press Enter, else go on
SendPrompt ==
  /\ pc = "send"
  /\ \/ Goes("wait")
     \/ Caught("send_click", "wait")
     \/ Caught("send_enter", "wait_unsent")
  /\ UNCHANGED <<runVars, envVars, histVars, saVars, valVars>>

\* line 169: time.sleep(1.0) -- the page may render a reply to a sent prompt
Wait ==
  /\ pc \in {"wait", "wait_unsent"}
  /\ \/ /\ messages' = messages
        /\ replied' = FALSE
     \/ /\ pc = "wait"
        /\ Len(messages) < MaxMessages
        /\ \E raw \in RawTexts :
             /\ messages' = Append(messages, raw)
             /\ replied' = (Strip(raw) # <<>>)
  /\ Goes("read")
  /\ UNCHANGED <<runVars, files, summaries, launched, acquired,
                 ctxCloseCalls, browserCloseCalls,
                 outcomes, prompts, promptLevels, submitCount, enterFailedAt,
                 written, next_btn, saVars, valVars>>

\* lines 58-59 of find_latest_bot_text: except Exception: return ""
ReadFailed == Caught("read", "extract")

\* lines 170-173: bot_text = find_latest_bot_text(page); append both lines
ReadReply ==
  /\ pc = "read"
  /\ \/ /\ Goes("extract")
        /\ bot_text' = find_latest_bot_text(messages)
     \/ /\ ReadFailed
        /\ bot_text' = <<>>
  /\ transcript' = transcript \o <<AgentLine(tpl), BotLine(bot_text')>>
  /\ UNCHANGED <<level, i, tpl, found, transcripts, candidate, submitted,
                 envVars, histVars, saVars, valVars>>

\* line 69: nlp(...) throws; neither extract_secret_from_text nor the loop
\* body has a handler
NlpFailed == Raised("nlp")

\* line 176: candidate = extract_secret_from_text(bot_text)
Extract ==
  /\ pc = "extract"
  /\ IF ~NlpCalled(bot_text)
     THEN /\ candidate' = extract_secret_from_text(bot_text, <<>>)
          /\ Goes("check_candidate")
     ELSE \/ \E generated \in NlpOutputs :
               /\ candidate' = extract_secret_from_text(bot_text, generated)
               /\ Goes("check_candidate")
          \/ /\ NlpFailed
             /\ candidate' = candidate
  /\ UNCHANGED <<level, i, tpl, found, transcript, transcripts, bot_text,
                 submitted, envVars, histVars, saVars, valVars>>

\* mutant: the test is `if candidate is not None:`
Accepted_notnone(c) == c # None

\* line 177: `if candidate:` is the only test before submit_answer
Accepted(c) == Truthy(c)

\* lines 177-180 and 189: if candidate: submit_answer(page, candidate), else next i
CheckCandidate ==
  /\ pc = "check_candidate"
  /\ IF Accepted(candidate)
     THEN /\ answer' = candidate[1]
          /\ submitCount' = submitCount + 1
          /\ sel' = 1
          /\ i' = i
          /\ Goes("sa_input")
          /\ UNCHANGED <<el, btn_sel, buttons, b, actionsDone, lateOps,
                         filled, pressFailed>>
     ELSE /\ i' = i + 1
          /\ Goes("probe_head")
          /\ UNCHANGED <<submitCount, saVars>>
  /\ replied' = FALSE
  /\ UNCHANGED <<level, tpl, found, transcript, transcripts, bot_text, candidate,
                 submitted, envVars, outcomes, prompts, promptLevels, enterFailedAt,
                 written, next_btn, valVars>>


\* ------------------------------------------------------------ submit_answer
\* One step per loop iteration.  The local btn lives inside a step; el is
\* cleared when its iteration ends (it is assigned again before it is read).
callerVars == <<level, i, tpl, found, transcript, transcripts, bot_text, candidate,
                envVars, histVars, valVars>>

\* bookkeeping: a page operation made once a submission action has completed
PageOp == lateOps' = IF actionsDone # <<>> THEN 1 ELSE lateOps

\* lines 76-89: for sel in ANSWER_INPUT_SELECTORS: el = page.query_selector(sel);
\* if el: el.fill(answer), else clear and el.type(answer), else pass
\* lines 103-104: except Exception: continue
SaInput ==
  /\ pc = "sa_input"
  /\ IF sel > NumInputSelectors
     THEN /\ Goes("sa_scan")
          /\ UNCHANGED <<sel, el, btn_sel, filled, lateOps>>
     ELSE /\ PageOp
          /\ \/ /\ Caught("input_query", "sa_input")
                /\ sel' = sel + 1
                /\ UNCHANGED <<el, btn_sel, filled>>
             \/ /\ Goes("sa_input")
                /\ sel' = sel + 1
                /\ UNCHANGED <<el, btn_sel, filled>>
             \/ /\ \/ Goes("sa_btn")
                   \/ Caught("input_fill", "sa_btn")
                   \/ Caught("input_type", "sa_btn")
                /\ el' = TRUE
                /\ filled' = filled + 1
                /\ btn_sel' = 1
                /\ sel' = sel
  /\ UNCHANGED <<callerVars, submitted, answer, buttons, b, actionsDone, pressFailed>>

\* mutant: the is_enabled() test is dropped
Clickable_any(state) == state # "None"

\* line 92: if btn and btn.is_enabled()
Clickable(state) == state = "enabled"

\* mutant: the click does not end the call, the cascade goes on
ClickReturns_goon ==
  /\ pc' = "sa_btn"
  /\ submitted' = submitted
  /\ btn_sel' = btn_sel + 1

\* mutant: after the click the Enter fallback still runs
ClickReturns_press ==
  /\ pc' = "sa_press"
  /\ submitted' = TRUE
  /\ btn_sel' = btn_sel

\* line 94: return True
ClickReturns ==
  /\ pc' = "after_submit"
  /\ submitted' = TRUE
  /\ btn_sel' = btn_sel

\* lines 89-96: for btn_sel in SUBMIT_BUTTON_SELECTORS: query the button;
\* if it is there and enabled, click it and return True; a throw: continue
SaBtn ==
  /\ pc = "sa_btn"
  /\ IF btn_sel > NumSubmitSelectors
     THEN /\ Goes("sa_press")
          /\ UNCHANGED <<btn_sel, actionsDone, submitted, lateOps>>
     ELSE /\ PageOp
          /\ \/ /\ Caught("btn_query", "sa_btn")
                /\ btn_sel' = btn_sel + 1
                /\ UNCHANGED <<actionsDone, submitted>>
             \/ /\ Caught("btn_is_enabled", "sa_btn")
                /\ btn_sel' = btn_sel + 1
                /\ UNCHANGED <<actionsDone, submitted>>
             \/ \E state \in {"None", "disabled", "enabled"} :
                  IF Clickable(state)
                  THEN \/ /\ actionsDone' = Append(actionsDone,
                                 [kind |-> "button", input |-> sel,
                                  button |-> btn_sel, state |-> state,
                                  label |-> <<>>])
                          /\ escaped' = escaped
                          /\ ClickReturns
                       \/ /\ Caught("btn_click", "sa_btn")
                          /\ btn_sel' = btn_sel + 1
                          /\ UNCHANGED <<actionsDone, submitted>>
                  ELSE /\ Goes("sa_btn")
                       /\ btn_sel' = btn_sel + 1
                       /\ UNCHANGED <<actionsDone, submitted>>
  /\ UNCHANGED <<callerVars, answer, sel, el, buttons, b, filled, pressFailed>>

\* mutant: a throw of the Enter press is not handled
PressFailed_raise ==
  /\ Raised("input_press")
  /\ sel' = sel

\* lines 101-102: except Exception: pass -- the for loop takes the next selector
PressFailed ==
  /\ Caught("input_press", "sa_input")
  /\ sel' = sel + 1

\* lines 97-102: el.press("Enter"); return True
SaPress ==
  /\ pc = "sa_press"
  /\ PageOp
  /\ \/ /\ actionsDone' = Append(actionsDone,
                                 [kind |-> "enter", input |-> sel,
                                  button |-> 0, state |-> "enabled",
                                  label |-> <<>>])
        /\ submitted' = TRUE
        /\ sel' = sel
        /\ Goes("after_submit")
        /\ UNCHANGED <<el, btn_sel, pressFailed>>
     \/ /\ PressFailed
        /\ pressFailed' = pressFailed + 1
        /\ el' = FALSE /\ btn_sel' = 0
        /\ UNCHANGED <<actionsDone, submitted>>
  /\ UNCHANGED <<callerVars, answer, buttons, b, filled>>

\* lines 105-107 and 116-118: buttons = page.query_selector_all("button")
SaScan ==
  /\ pc = "sa_scan"
  /\ PageOp
  /\ \/ /\ \E n \in 0..MaxButtons : buttons' = n
        /\ b' = 1
        /\ submitted' = submitted
        /\ Goes("sa_scan_btn")
     \/ /\ Caught("scan_query", "after_submit")
        /\ submitted' = FALSE
        /\ UNCHANGED <<buttons, b>>
  /\ UNCHANGED <<callerVars, answer, sel, el, btn_sel,
                 actionsDone, filled, pressFailed>>

\* line 110: text = (b.inner_text() or "").lower()
LabelText(label) == IF label = None THEN <<>> ELSE Lower(label[1])

\* mutant: the keyword test is dropped, the first button is clicked
LooksLikeSubmit_any(text) == TRUE

\* line 111: any(k in text for k in ("submit", "check", "next", "answer", "send"))
LooksLikeSubmit(text) == \E k \in Keywords : Contains(text, k)

\* lines 108-115 and 118: for b in buttons: click the first that looks like submit
SaScanBtn ==
  /\ pc = "sa_scan_btn"
  /\ IF b > buttons
     THEN /\ submitted' = FALSE
          /\ Goes("after_submit")
          /\ UNCHANGED <<b, actionsDone, lateOps>>
     ELSE /\ PageOp
          /\ \/ /\ Caught("scan_text", "sa_scan_btn")
                /\ b' = b + 1
                /\ UNCHANGED <<actionsDone, submitted>>
             \/ \E label \in ScanLabels :
                  IF LooksLikeSubmit(LabelText(label))
                  THEN \/ /\ actionsDone' = Append(actionsDone,
                                 [kind |-> "keyword", input |-> 0,
                                  button |-> b, state |-> "enabled",
                                  label |-> LabelText(label)])
                          /\ submitted' = TRUE
                          /\ b' = b
                          /\ Goes("after_submit")
                       \/ /\ Caught("scan_click", "sa_scan_btn")
                          /\ b' = b + 1
                          /\ UNCHANGED <<actionsDone, submitted>>
                  ELSE /\ Goes("sa_scan_btn")
                       /\ b' = b + 1
                       /\ UNCHANGED <<actionsDone, submitted>>
  /\ UNCHANGED <<callerVars, answer, sel, el, btn_sel, buttons,
                 filled, pressFailed>>

\* mutant: the level counts as found only if the submission was attempted
FoundAfter_ifsubmitted(result) == result

\* lines 181-186: both branches of `if submitted:` only print; found = True
FoundAfter(result) == TRUE

\* lines 180-187: submitted = submit_answer(...); found = True; break
AfterSubmit ==
  /\ pc = "after_submit"
  /\ found' = FoundAfter(submitted)
  /\ Goes("save")
  /\ NoCall
  /\ UNCHANGED <<level, i, tpl, transcript, transcripts, bot_text, candidate,
                 submitted, envVars, histVars, valVars>>

\* --------------------------------------------------------- end of a level
\* mutant: the transcript of a level without a candidate is not saved
SaveWanted_found == found

\* line 192 is reached on every way out of the for loop
SaveWanted == TRUE

\* lines 121-125 and 192: transcripts.append(save_transcript(level, transcript))
SaveTranscript ==
  /\ pc = "save"
  /\ \/ /\ IF SaveWanted
           THEN /\ files' = Append(files, FName(level))
                /\ written' = transcript
                /\ transcripts' = Append(transcripts, FName(level))
           ELSE UNCHANGED <<files, written, transcripts>>
        /\ Goes("check_found")
     \/ /\ Raised("save")
        /\ UNCHANGED <<files, written, transcripts>>
  /\ UNCHANGED <<level, i, tpl, found, transcript, bot_text, candidate, submitted,
                 messages, summaries, launched, acquired,
                 ctxCloseCalls, browserCloseCalls,
                 outcomes, prompts, promptLevels, submitCount, enterFailedAt, replied,
                 next_btn, saVars, valVars>>

\* lines 195-197: if not found: print(...); break
CheckFound ==
  /\ pc = "check_found"
  /\ IF ~found
     THEN /\ outcomes' = Append(outcomes, "EXHAUSTED")
          /\ Goes("finally")
     ELSE /\ outcomes' = Append(outcomes, "FOUND")
          /\ Goes("advance")
  /\ UNCHANGED <<runVars, envVars, prompts, promptLevels, submitCount,
                 enterFailedAt, replied, written, next_btn, saVars, valVars>>

\* mutant: a throw of the click on the Next button is not handled
AdvanceFailed_raise == Raised("next_click")

\* lines 207-208: except Exception: pass
AdvanceFailed == Caught("next_click", "next_level")

\* lines 202-208: click an enabled "Next" or "Continue" button if there is one
Advance ==
  /\ pc = "advance"
  /\ \/ /\ Goes("next_level")
        /\ next_btn' \in {"absent", "disabled", "clicked"}
     \/ /\ \/ Caught("next_query", "next_level")
           \/ Caught("next_is_enabled", "next_level")
           \/ AdvanceFailed
        /\ next_btn' = "threw"
  /\ UNCHANGED <<runVars, envVars, outcomes, prompts, promptLevels, submitCount,
                 enterFailedAt, replied, written, saVars, valVars>>

\* line 211: level += 1
\* (bot_text, candidate and submitted are assigned again before they are read)
NextLevel ==
  /\ pc = "next_level"
  /\ level' = level + 1
  /\ bot_text' = <<>> /\ candidate' = None /\ submitted' = FALSE
  /\ Goes("level_head")
  /\ UNCHANGED <<i, tpl, found, transcript, transcripts,
                 envVars, histVars, saVars, valVars>>

\* ----------------------------------------------------------------- finally
\* lines 215-218: write "\n".join(transcripts) to the summary file
WriteSummary ==
  /\ pc = "finally"
  /\ \/ /\ summaries' = Append(summaries, transcripts)
        /\ Goes("ctx_close")
     \/ /\ summaries' = summaries
        /\ RaisedInFinally("summary")
  /\ UNCHANGED <<runVars, messages, files, launched, acquired,
                 ctxCloseCalls, browserCloseCalls, histVars, saVars, valVars>>

\* line 219: context.close()
CtxClose ==
  /\ pc = "ctx_close"
  /\ ctxCloseCalls' = ctxCloseCalls + 1
  /\ \/ Goes("browser_close")
     \/ RaisedInFinally("ctx_close")
  /\ UNCHANGED <<runVars, messages, files, summaries, launched, acquired,
                 browserCloseCalls, histVars, saVars, valVars>>

\* line 220: browser.close()
BrowserClose ==
  /\ pc = "browser_close"
  /\ browserCloseCalls' = browserCloseCalls + 1
  /\ \/ Goes("done")
     \/ RaisedInFinally("browser_close")
  /\ UNCHANGED <<runVars, messages, files, summaries, launched, acquired,
                 ctxCloseCalls, histVars, saVars, valVars>>

Next ==
  \/ Launch \/ NewContext \/ Goto
  \/ LevelHead \/ ProbeHead \/ EnterPrompt \/ SendPrompt \/ Wait \/ ReadReply
  \/ Extract \/ CheckCandidate
  \/ SaInput \/ SaBtn \/ SaPress \/ SaScan \/ SaScanBtn
  \/ AfterSubmit \/ SaveTranscript \/ CheckFound \/ Advance \/ NextLevel
  \/ WriteSummary \/ CtxClose \/ BrowserClose

Spec == Init /\ [][Next]_vars

\* the function is one sequential thread: while a statement is left to run and
\* every collaborator call returns or throws, the next statement is run
FairSpec == Spec /\ WF_vars(Next)


\* ------------------------------------------- validate_candidate on its own
RECURSIVE SeqsUpTo(_, _)
SeqsUpTo(S, n) ==
  IF n = 0 THEN { <<>> }
  ELSE LET shorter == SeqsUpTo(S, n - 1) IN
       shorter \cup { Append(q, x) : q \in {r \in shorter : Len(r) = n - 1}, x \in S }

Rep(c, n) == [k \in 1..n |-> c]

\* characters of the enumerated arguments: allowed ones, a space and a "$"
ValAlphabet == {"a", "Z", "7", "_", "-", "'", " ", "$"}

\* arguments around the length limit
LongCores ==
  { Rep("a", n) : n \in {MaxTokenLen - 1, MaxTokenLen, MaxTokenLen + 1} }
  \cup { Rep("a", MaxTokenLen - 1) \o <<"$">>,
         <<"a", " ">> \o Rep("a", MaxTokenLen - 2) }

\* the arguments validate_candidate is applied to
ValidateInputs ==
  { l \o c \o r : l \in SeqsUpTo({" ", "\n"}, MaxPad),
                  c \in SeqsUpTo(ValAlphabet, MaxShort) \cup LongCores,
                  r \in SeqsUpTo({" ", "\n"}, MaxPad) }

InitValidate ==
  /\ pc = "validate"
  /\ vtoken \in ValidateInputs /\ vresult = FALSE
  /\ NoExtractCall
  /\ InitRun

\* one call validate_candidate(vtoken)
Validate ==
  /\ pc = "validate"
  /\ vresult' = validate_candidate(vtoken)
  /\ pc' = "validated"
  /\ UNCHANGED <<vtoken, etext, egen, ecalled, eresult,
                 escaped, runVars, envVars, histVars, saVars>>

NextValidate == Validate

SpecValidate == InitValidate /\ [][NextValidate]_vars

\* ------------------------------------- extract_secret_from_text on its own
\* reply texts: blank ones and ones with a word
ExtractTexts == SeqsUpTo({" ", "\n", "M"}, MaxTextLen)

\* generated_text values: the sentinel in several letter cases, near misses,
\* words and the empty output, with whitespace around them
ExtractCores ==
  { <<>>, <<"N","O","N","E">>, <<"n","o","n","e">>, <<"N","o","n","e">>,
    <<"n","O","n","E">>, <<"N","O","N">>, <<"N","O","N","E","S">>,
    <<"N","O"," ","N","E">>, <<"M","4">>, <<"a"," ","b">>,
    <<"S","e","c","r","e","t","i","a">> }

ExtractOutputs ==
  { l \o c \o r : l \in SeqsUpTo({" ", "\n"}, MaxPad),
                  c \in ExtractCores,
                  r \in SeqsUpTo({" ", "\n"}, MaxPad) }

InitExtract ==
  /\ pc = "extract_call"
  /\ vtoken = <<>> /\ vresult = FALSE
  /\ etext \in ExtractTexts /\ egen \in ExtractOutputs
  /\ ecalled = FALSE /\ eresult = None
  /\ InitRun

\* one call extract_secret_from_text(etext); the pipeline, if it is invoked,
\* returns egen or throws
ExtractCall ==
  /\ pc = "extract_call"
  /\ IF ~NlpCalled(etext)
     THEN /\ ecalled' = FALSE
          /\ eresult' = extract_secret_from_text(etext, <<>>)
          /\ pc' = "extracted"
          /\ escaped' = escaped
     ELSE /\ ecalled' = TRUE
          /\ \/ /\ eresult' = extract_secret_from_text(etext, egen)
                /\ pc' = "extracted"
                /\ escaped' = escaped
             \/ /\ eresult' = eresult
                /\ pc' = "extract_raised"
                /\ escaped' = "nlp"
  /\ UNCHANGED <<vtoken, vresult, etext, egen, runVars, envVars, histVars, saVars>>

NextExtract == ExtractCall

SpecExtract == InitExtract /\ [][NextExtract]_vars


\* ------------------------------------------------------------- properties
SubmitPcs ==
  {"sa_input", "sa_btn", "sa_press", "sa_scan", "sa_scan_btn", "after_submit"}
FoundPcs == {"save", "check_found", "advance", "next_level"}
FinalPcs == {"finally", "ctx_close", "browser_close", "done"}

\* throws of browser-automation operations inside the level loop
LoopBrowserOps ==
  {"fill", "enter", "send_click", "send_enter", "read",
   "input_query", "input_fill", "input_type", "btn_query", "btn_is_enabled",
   "btn_click", "input_press", "scan_query", "scan_text", "scan_click",
   "next_query", "next_is_enabled", "next_click"}

\* C1: submit_answer runs, and the level becomes FOUND, only for a candidate
\* that passes validate_candidate.
C1_SubmitOnlyValidated ==
  /\ pc \in SubmitPcs => validate_candidate(answer)
  /\ (found /\ pc \in FoundPcs) => (Truthy(candidate) /\ validate_candidate(candidate[1]))

C3_NlpFailureIsNoCandidate ==
  escaped # "nlp"

\* C4: on every termination after the context and page exist, the summary was
\* written exactly once and lists the saved transcripts in level order
\* (a failure of the summary write itself left aside).
C4_SummaryOnEveryExit ==
  (pc = "done" /\ acquired /\ escaped # "summary") =>
    /\ Len(summaries) = 1
    /\ summaries[1] = files

\* C5: on every exit path that passes the finally clause, context.close() and
\* browser.close() have both been invoked.
C5_TeardownOnEveryExit ==
  (pc = "done" /\ acquired /\ level >= 1) =>
    (ctxCloseCalls >= 1 /\ browserCloseCalls >= 1)

\* C6: if levels 1..k-1 ended FOUND and level k ended EXHAUSTED, then exactly
\* the k transcripts of levels 1..k are persisted, in that order, no prompt
\* was entered for a level above k, and the run is in its final clause.
C6_ExhaustedLevelHalts ==
  \A k \in 1..MaxLevels :
    (/\ Len(outcomes) >= k
     /\ outcomes[k] = "EXHAUSTED"
     /\ \A j \in 1..(k - 1) : outcomes[j] = "FOUND")
    =>
    /\ Len(outcomes) = k
    /\ level = k
    /\ files = [j \in 1..k |-> FName(j)]
    /\ written = transcript
    /\ transcripts = files
    /\ \A l \in promptLevels : l <= k
    /\ pc \in FinalPcs

\* C6 witness: level 1 FOUND, level 2 EXHAUSTED after all its probes, run over.
C6_Witness ==
  /\ pc = "done"
  /\ outcomes = <<"FOUND", "EXHAUSTED">>
  /\ enterFailedAt = 0
  /\ Len(files) = 2 /\ promptLevels = {1, 2}
  /\ Len(written) = 2 * MaxTemplatesPerLevel

\* C7: a throw of a browser operation inside the level loop is absorbed: it
\* is never the exception that is pending or that leaves the function, and
\* while the loop runs no exception is pending at all.
C7_BrowserThrowsAbsorbed ==
  /\ escaped \notin LoopBrowserOps
  /\ pc \notin FinalPcs => escaped = "none"

\* C7 witness: in level 2 the Enter press on two found inputs threw, the
\* cascade went on each time to a completed submission, nothing is pending.
C7_Witness ==
  /\ pc = "after_submit" /\ level = 2
  /\ pressFailed = 2 /\ submitted
  /\ escaped = "none"

\* C8: submit_answer returns True exactly when one submission action
\* completed and False exactly when none did; never more than one completes
\* and no page operation follows a completed one.
C8_SubmitResult ==
  /\ Len(actionsDone) <= 1
  /\ lateOps = 0
  /\ pc = "after_submit" => (submitted <=> Len(actionsDone) = 1)
  /\ pc = "after_submit" => (~submitted <=> Len(actionsDone) = 0)

\* C8 witness: after a failed pass over a found input, a later input's submit
\* button was clicked and the call returned True.
C8_Witness ==
  /\ pc = "after_submit" /\ submitted
  /\ Len(actionsDone) = 1 /\ actionsDone[1].kind = "button"
  /\ pressFailed = 1

\* the button part of C9: the clicked submit button is the one the loop over
\* SUBMIT_BUTTON_SELECTORS stands at, it was there and enabled, and the
\* button loop and the Enter press only run for an element the query returned.
ButtonOrder ==
  /\ (pc = "after_submit" /\ actionsDone # <<>> /\ actionsDone[1].kind = "button")
       => (/\ actionsDone[1].button = btn_sel
           /\ actionsDone[1].button \in 1..NumSubmitSelectors
           /\ actionsDone[1].state = "enabled")
  /\ pc \in {"sa_btn", "sa_press"} => el

\* C9 (as claimed): the input field used is the one matched by the first
\* input locator that finds an element (so it is the only element found and
\* filled in the call); buttons are taken in list order and locators that
\* match nothing, a disabled button, or throw are skipped.
C9_FirstFoundInputUsed ==
  /\ (pc = "after_submit" /\ actionsDone # <<>> /\ actionsDone[1].kind # "keyword")
       => (actionsDone[1].input = sel /\ filled = 1)
  /\ ButtonOrder

\* C9 (amended): the input field used is the one matched by the first input
\* locator, in list order, that finds an element and on which a submit-button
\* click or the Enter press completes; every element found by an earlier
\* locator was filled and its Enter press threw.  The button part is as claimed.
C9_FirstCompletedInputUsed ==
  /\ (pc = "after_submit" /\ actionsDone # <<>> /\ actionsDone[1].kind # "keyword")
       => (/\ actionsDone[1].input = sel
           /\ sel \in 1..NumInputSelectors
           /\ filled = pressFailed + 1
           /\ filled <= sel)
  /\ pressFailed <= filled /\ filled <= pressFailed + 1
  /\ ButtonOrder

\* C9 witness: the first found input failed, a later one was submitted by a
\* click on the second submit button after the first was skipped.
C9_Witness ==
  /\ pc = "after_submit" /\ actionsDone # <<>>
  /\ actionsDone[1].kind = "button" /\ actionsDone[1].button = 2
  /\ filled = 2 /\ pressFailed = 1

\* C10 (as claimed): validate_candidate(s) is true exactly when s itself has
\* length 1..50 and consists of letters, digits, "_", "-" and "'" only.
C10_ValidatorExact ==
  pc = "validated" =>
    (vresult <=> (/\ Len(vtoken) >= 1 /\ Len(vtoken) <= MaxTokenLen
                  /\ \A k \in 1..Len(vtoken) : vtoken[k] \in AllowedChars))

\* C10 (amended): validate_candidate(s) is true exactly when s, with leading
\* and trailing whitespace removed, has length 1..50 and consists of letters,
\* digits, "_", "-" and "'" only.
C10_ValidatorAfterStrip ==
  pc = "validated" =>
    (vresult <=>
       \E a \in 1..Len(vtoken) : \E z \in a..Len(vtoken) :
          /\ z - a + 1 <= MaxTokenLen
          /\ \A k \in 1..(a - 1) : vtoken[k] \in Whitespace
          /\ \A k \in (z + 1)..Len(vtoken) : vtoken[k] \in Whitespace
          /\ \A k \in a..z : vtoken[k] \in AllowedChars)

\* C10 witness: an argument with surrounding whitespace, longer than 50
\* characters before stripping, was accepted.
C10_Witness ==
  /\ pc = "validated" /\ vresult
  /\ Len(vtoken) > MaxTokenLen
  /\ vtoken[1] \in Whitespace /\ vtoken[Len(vtoken)] \in Whitespace

\* positions of a probe between entering its prompt and reading the reply
SentPcs == {"send", "wait", "wait_unsent", "read"}

\* C11: in every level the n-th prompt entered (n = 1, 2, ...) is template
\* ((n-1) mod 3) + 1 of TEMPLATES, in that order with wraparound and starting
\* again at the first template in each level; the Agent lines of the level's
\* transcript follow the same order.
C11_TemplateOrder ==
  /\ Len(prompts) <= MaxTemplatesPerLevel
  /\ \A n \in 1..Len(prompts) : prompts[n] = ((n - 1) % NumTemplates) + 1
  /\ pc \in SentPcs => (Len(prompts) = i + 1 /\ tpl = prompts[i + 1])
  /\ \A n \in 1..(Len(transcript) \div 2) :
        /\ transcript[2 * n - 1].who = "Agent"
        /\ transcript[2 * n - 1].tpl = ((n - 1) % NumTemplates) + 1

\* C11 witness: in level 2 the fourth prompt, the first template again, was
\* entered after all three templates had been used in order.
C11_Witness ==
  /\ level = 2 /\ pc = "send"
  /\ prompts = <<1, 2, 3, 1>>

\* the level the run stands in has ended EXHAUSTED
LevelExhausted ==
  level >= 1 /\ Len(outcomes) = level /\ outcomes[level] = "EXHAUSTED"

Blank(s) == \A k \in 1..Len(s) : s[k] \in Whitespace

\* t is s without its leading and trailing whitespace
IsTrimOf(t, s) ==
  /\ \E a \in 0..Len(s) :
        /\ a + Len(t) <= Len(s)
        /\ SubSeq(s, a + 1, a + Len(t)) = t
        /\ Blank(SubSeq(s, 1, a))
        /\ Blank(SubSeq(s, a + Len(t) + 1, Len(s)))
  /\ t # <<>> => (t[1] \notin Whitespace /\ t[Len(t)] \notin Whitespace)

\* t is the word NONE in some letter case
IsNoneWord(t) ==
  /\ Len(t) = 4
  /\ t[1] \in {"N", "n"} /\ t[2] \in {"O", "o"}
  /\ t[3] \in {"N", "n"} /\ t[4] \in {"E", "e"}

\* C13: extract_secret_from_text invokes the pipeline exactly for the replies
\* that are not blank; it returns None for a blank reply and for a model
\* output that, trimmed, is NONE in any letter case; otherwise it returns
\* the trimmed model output.
C13_ExtractContract ==
  /\ pc \in {"extracted", "extract_raised"} => (ecalled <=> ~Blank(etext))
  /\ pc = "extracted" =>
       /\ eresult = None <=>
            (\/ Blank(etext)
             \/ \E a \in 0..Len(egen) :
                  /\ a + 4 <= Len(egen)
                  /\ IsNoneWord(SubSeq(egen, a + 1, a + 4))
                  /\ IsTrimOf(SubSeq(egen, a + 1, a + 4), egen))
       /\ eresult # None => IsTrimOf(eresult[1], egen)

\* C13 witness: for a non-blank reply the model returned " Secretia " and
\* the call returned "Secretia".
C13_Witness ==
  /\ pc = "extracted" /\ ecalled
  /\ egen = <<" ">> \o <<"S","e","c","r","e","t","i","a">> \o <<" ">>
  /\ eresult = Some(<<"S","e","c","r","e","t","i","a">>)

ScanPcs == {"sa_scan", "sa_scan_btn"}

\* a keyword-button click completed in this submit_answer call
KeywordClicked == actionsDone # <<>> /\ actionsDone[1].kind = "keyword"

\* C14 (as claimed): the last-resort scan runs, and a keyword button is
\* clicked, only in a call in which no input-field locator matched an element.
C14_ScanOnlyWithoutInput ==
  /\ pc \in ScanPcs => filled = 0
  /\ KeywordClicked => filled = 0

\* C14 (amended): the last-resort scan runs only after the loop over all
\* input-field locators ended without a completed submission action: every
\* element a locator matched was filled, its submit buttons were tried and
\* its Enter press threw.  The button clicked is one of the page's buttons
\* and its lowercased label contains one of the five keywords.
C14_ScanAfterAllInputsFailed ==
  /\ pc \in ScanPcs =>
       (sel = NumInputSelectors + 1 /\ filled = pressFailed /\ actionsDone = <<>>)
  /\ KeywordClicked =>
       /\ pc = "after_submit" /\ submitted
       /\ sel = NumInputSelectors + 1 /\ filled = pressFailed
       /\ actionsDone[1].button = b /\ b \in 1..buttons
       /\ \E k \in Keywords : Contains(actionsDone[1].label, k)
       /\ actionsDone[1].label = Lower(actionsDone[1].label)

\* C14 witness: an input field was matched and filled, its Enter press threw,
\* and the call ended with a click on the second page button, a keyword button.
C14_Witness ==
  /\ KeywordClicked /\ pc = "after_submit"
  /\ filled = 1 /\ pressFailed = 1
  /\ actionsDone[1].button = 2

\* C15 (as claimed): in one submit_answer call at most one input field has
\* its value set.
C15_AtMostOneFill ==
  filled <= 1

\* C15 (amended): input fields are filled one at a time in locator order,
\* and a further field is filled only after the Enter press on the one before
\* threw; the button cascade and the Enter press are applied to the field
\* just filled; Enter is pressed only after every submit-button locator was
\* tried without a completed click; once a click or the Enter press has
\* completed, nothing else is filled or pressed.
C15_FillUntilSubmitted ==
  /\ filled <= NumInputSelectors
  /\ pc \in {"sa_input", "sa_btn", "sa_press"} => filled <= sel
  /\ pc = "sa_input" => (filled = pressFailed /\ ~el /\ actionsDone = <<>>)
  /\ pc = "sa_btn" => (filled = pressFailed + 1 /\ el /\ actionsDone = <<>>)
  /\ pc = "sa_press" =>
       /\ filled = pressFailed + 1 /\ el /\ actionsDone = <<>>
       /\ btn_sel = NumSubmitSelectors + 1
  /\ (actionsDone # <<>> /\ actionsDone[1].kind = "enter") =>
       /\ pc = "after_submit" /\ actionsDone[1].input = sel
       /\ btn_sel = NumSubmitSelectors + 1
       /\ filled = pressFailed + 1
  /\ (actionsDone # <<>> /\ actionsDone[1].kind = "button") =>
       /\ pc = "after_submit" /\ actionsDone[1].input = sel
       /\ filled = pressFailed + 1

\* C15 witness: three input fields were filled in one call; the Enter press
\* on the first two threw and the one on the third completed.
C15_Witness ==
  /\ pc = "after_submit" /\ filled = 3 /\ pressFailed = 2
  /\ actionsDone # <<>> /\ actionsDone[1].kind = "enter"

\* C16: once a probe yields a candidate, submit_answer is called with it,
\* exactly once in the level, and the level is found whatever the call
\* returned; after that the level only saves its transcript and advances:
\* no further prompt is entered and no further reply is read or extracted.
C16_FoundAfterOneSubmit ==
  /\ submitCount <= 1
  /\ pc \in SubmitPcs =>
       /\ submitCount = 1 /\ ~found
       /\ Truthy(candidate) /\ answer = candidate[1]
  /\ (submitCount = 1 /\ pc \notin SubmitPcs) => found
  /\ found =>
       /\ submitCount = 1
       /\ pc \in FoundPcs => Truthy(candidate)
       /\ pc \in FoundPcs \cup FinalPcs \cup {"level_head"}
       /\ Len(prompts) = i + 1
       /\ Len(transcript) = 2 * (i + 1)
  /\ (level >= 1 /\ Len(outcomes) = level /\ outcomes[level] = "FOUND") => found

\* C16 witness: submit_answer returned False for the candidate of the second
\* probe, and the level ended FOUND.
C16_Witness ==
  /\ pc = "advance" /\ found /\ ~submitted
  /\ i = 1 /\ Len(prompts) = 2
  /\ outcomes[level] = "FOUND"

\* positions inside the body of the level loop, up to the end of the level
LevelPcs ==
  {"probe_head", "enter", "check_candidate", "extract", "save", "check_found"}
  \cup SentPcs \cup SubmitPcs

\* C17: a level that ended FOUND is followed by the next index, whatever the
\* look for a Next/Continue button came to (absent, disabled, clicked, or a
\* throw); the levels run are 1, 2, 3, ... without a gap or a repetition,
\* and no level above max_levels is run.
C17_LevelIndexAdvances ==
  /\ level \in 0..(MaxLevels + 1)
  /\ pc \in LevelPcs => (level \in 1..MaxLevels /\ Len(outcomes) = level - 1)
  /\ pc \in {"advance", "next_level"} =>
       /\ level \in 1..MaxLevels /\ Len(outcomes) = level
       /\ outcomes[level] = "FOUND" /\ escaped = "none"
  /\ pc = "next_level" => next_btn \in {"absent", "disabled", "clicked", "threw"}
  /\ pc = "level_head" => (level >= 1 /\ Len(outcomes) = level - 1)
  /\ \A k \in 1..Len(outcomes) :
        outcomes[k] = "FOUND" =>
          \/ level = k /\ pc \in {"advance", "next_level"}
          \/ level > k
  /\ \A l \in promptLevels : l <= level /\ l <= MaxLevels
  /\ \A l \in 1..(level - 1) : l \in promptLevels
  /\ files = [j \in 1..Len(files) |-> FName(j)]
  /\ Len(files) <= level /\ Len(files) <= MaxLevels

\* C17 witness: the look for a Next button after the last level threw; the
\* index went on to max_levels + 1 and the loop ended without an error.
C17_Witness ==
  /\ level = MaxLevels + 1 /\ pc = "finally" /\ escaped = "none"
  /\ next_btn = "threw"
  /\ Len(outcomes) = MaxLevels

\* C18: the reply recorded for a probe and passed to the extractor is text
\* the page rendered after this probe's prompt was sent; if none rendered,
\* it is the empty string.
C18_ReplyIsFresh ==
  pc = "extract" =>
    /\ transcript[Len(transcript)] = BotLine(bot_text)
    /\ (bot_text = <<>> \/ replied)

\* C20: submit_answer is never called with the empty string: a model output
\* that is empty after trimming does not make the level found, no
\* submit_answer call is made for it, and the probe loop goes on with the
\* next iteration.
C20_EmptyNeverSubmitted ==
  /\ pc \in SubmitPcs => answer # <<>>
  /\ (found /\ pc \in FoundPcs) => candidate[1] # <<>>
  /\ (candidate = Some(<<>>) /\ pc # "check_candidate") =>
       /\ ~found /\ submitCount = 0 /\ pc \notin SubmitPcs
       /\ i >= 1 /\ Len(transcript) >= 2 * i

\* C20 witness: the model output of the first probe was empty after trimming;
\* the second prompt of the level has been entered.
C20_Witness ==
  /\ candidate = Some(<<>>) /\ pc = "send"
  /\ i = 1 /\ prompts = <<1, 2>> /\ ~found

\* the caps of the level loop and of the probe loop
WithinCaps ==
  /\ level <= MaxLevels + 1
  /\ Len(outcomes) <= MaxLevels
  /\ \A l \in promptLevels : l \in 1..MaxLevels
  /\ i <= MaxTemplatesPerLevel
  /\ Len(prompts) <= MaxTemplatesPerLevel
  /\ Len(transcript) <= 2 * MaxTemplatesPerLevel
  /\ pc \in SentPcs => i < MaxTemplatesPerLevel
  /\ (pc = "save" /\ i = MaxTemplatesPerLevel) => escaped = "none"
  /\ level = MaxLevels + 1 =>
       /\ pc \in {"level_head"} \cup FinalPcs
       /\ pc \in {"level_head", "finally"} => escaped = "none"

\* C19: when every collaborator call returns or throws, the run always comes
\* to its end, and at every moment at most max_levels levels were started and
\* at most max_templates_per_level prompts were entered in the level (so at
\* most max_levels * max_templates_per_level in the run); the loops end at
\* their caps without an exception.
C19_TerminatesWithinCaps ==
  [](WithinCaps) /\ <>(pc = "done")

\* C19 witness: the run is over without an error; max_levels levels were
\* started and the last one used all max_templates_per_level probes.
C19_Witness ==
  /\ pc = "done" /\ escaped = "none"
  /\ level = MaxLevels /\ i = MaxTemplatesPerLevel
  /\ Len(prompts) = MaxTemplatesPerLevel
  /\ promptLevels = 1..MaxLevels

====
